---- MODULE Spec2Model ----
(***************************************************************************)
(* The experiment launcher of riemann/embed_experiment.py: the manifold    *)
(* builder get_embed_manifold and the command embed, which builds a model, *)
(* trains it in worker processes (or in the parent) and drains the log     *)
(* queue.  The parent is a sequential program whose position is pc; the    *)
(* worker processes and the queue's feeder threads run beside it.          *)
(***************************************************************************)
EXTENDS Integers, Sequences, FiniteSets, TLC

\* ---------------------------------------------------------------- bounds
MaxThreads == 2      \* largest train_threads explored
MaxMsgs == 3         \* most log messages put on the queue in one run of embed
PipeCapacity == 2    \* messages the queue's OS pipe holds before a write blocks
RecursionLimit == 3  \* depth of the interpreter's call stack
MaxSubs == 2         \* longest submanifold_names list explored

VARIABLES
    train_threads, double_precision, gpu,              \* configuration
    manifold_name, submanifold_names, submanifold_shapes,
    pc,          \* position of the parent in embed
    exc,         \* exception in flight in the parent ("none" when there is none)
    manifold,    \* result of get_embed_manifold
    model,       \* the model's parameter storage
    log_queue,   \* the mp.Queue object: created flag and maxsize
    threads,     \* the list `threads` of mp.Process objects
    idx,         \* position of the running `for thread in threads` loop
    wstate,      \* per rank: state of the worker process
    wexit,       \* per rank: exit code of the worker process (-1: none yet)
    produced,    \* per rank: messages train has put so far
    buffer,      \* per rank: the queue's process-local buffer (feeder thread input)
    pipe,        \* the queue's pipe
    fed,         \* history: every message ever written to the pipe, in order
    logged,      \* messages passed to _log.info, in order
    calls        \* history: the calls the parent has made, in order

config == <<train_threads, double_precision, gpu,
            manifold_name, submanifold_names, submanifold_shapes>>
vars == <<train_threads, double_precision, gpu,
          manifold_name, submanifold_names, submanifold_shapes,
          pc, exc, manifold, model, log_queue, threads, idx, wstate, wexit,
          produced, buffer, pipe, fed, logged, calls>>

Ranks == 0..(MaxThreads - 1)

\* ------------------------------------------------------ get_embed_manifold
Names == {"Euclidean", "PoincareBall", "Sphere", "Product", "Torus"}

SeqsUpTo(S, n) == UNION {[1..k -> S] : k \in 0..n}

\* `manifold = None`
NoManifold == [kind |-> "None", name |-> "", subs |-> <<>>, shapes |-> <<>>]

\* Euclidean(), PoincareBall(), Sphere()
Leaf(name) == [kind |-> "Leaf", name |-> name, subs |-> <<>>, shapes |-> <<>>]

\* Product(submanifolds, np.array(submanifold_shapes))
Product(submanifolds, shapes) ==
    [kind |-> "Product", name |-> "Product", subs |-> submanifolds, shapes |-> shapes]

\* The call stack overflowed: the call raised instead of returning.
RecursionError == [kind |-> "RecursionError", name |-> "", subs |-> <<>>, shapes |-> <<>>]

\* get_embed_manifold(name) at call depth `depth`.  The function is captured
\* by the experiment, so a call that passes only the name receives
\* submanifold_names and submanifold_shapes from the configuration, as the
\* argument-less call in embed receives all three.
RECURSIVE get_embed_manifold(_, _)
get_embed_manifold(name, depth) ==
    IF depth > RecursionLimit THEN RecursionError
    ELSE IF name = "Euclidean" THEN Leaf("Euclidean")
    ELSE IF name = "PoincareBall" THEN Leaf("PoincareBall")
    ELSE IF name = "Sphere" THEN Leaf("Sphere")
    ELSE IF name = "Product" THEN
        LET submanifolds == [i \in 1..Len(submanifold_names) |->
                                get_embed_manifold(submanifold_names[i], depth + 1)]
        IN  IF \E i \in 1..Len(submanifolds) : submanifolds[i].kind = "RecursionError"
            THEN RecursionError
            ELSE Product(submanifolds, submanifold_shapes)
    ELSE NoManifold

\* ------------------------------------------------------- parameter storage
DTypes == {"float32", "float64"}

NoModel == [device |-> "none", dtype |-> "none", shared |-> FALSE]

\* ManifoldEmbedding(...): parameters of the default dtype, allocated on the
\* CPU in private memory.
ManifoldEmbedding == [device |-> "cpu", dtype |-> "float32", shared |-> FALSE]

\* torch.device(f'cuda:{gpu}' if gpu >= 0 else 'cpu')
device == IF gpu >= 0 THEN "cuda" ELSE "cpu"

\* model.share_memory(): moves CPU storage to shared memory in place; storage
\* on a CUDA device always counts as shared.
share_memory(m) == [m EXCEPT !.shared = TRUE]

\* model.to(device): the same storage when it is already there, otherwise a
\* freshly allocated copy on the target device.
to(m, dev) ==
    IF m.device = dev THEN m
    ELSE [m EXCEPT !.device = dev, !.shared = (dev # "cpu")]

\* model.double() / model.float(): the same storage when the dtype already
\* matches, otherwise a freshly allocated converted copy on the same device.
convert(m, dtype) ==
    IF m.dtype = dtype THEN m
    ELSE [m EXCEPT !.dtype = dtype, !.shared = (m.device # "cpu")]

\* if double_precision: model.double() else: model.float()
precision(m) == IF double_precision THEN convert(m, "float64") ELSE convert(m, "float32")

\* ------------------------------------------------------------- the queue
\* A queue created with room for as many messages as the pipe holds.
MutQueueMaxsize == PipeCapacity

\* mp.Queue(): no maxsize argument, so maxsize takes its default, 0.
QueueMaxsize == 0

NoQueue == [created |-> FALSE, maxsize |-> 0]

Queue(maxsize) == [created |-> TRUE, maxsize |-> maxsize]

RECURSIVE SumLen(_, _)
SumLen(f, S) ==
    IF S = {} THEN 0
    ELSE LET r == CHOOSE x \in S : TRUE IN Len(f[r]) + SumLen(f, S \ {r})

RECURSIVE Sum(_, _)
Sum(f, S) ==
    IF S = {} THEN 0
    ELSE LET r == CHOOSE x \in S : TRUE IN f[r] + Sum(f, S \ {r})

\* Items put and not yet got: those in the process-local buffers and in the pipe.
QueueSize == SumLen(buffer, Ranks) + Len(pipe)

\* Queue.put blocks while a positive maxsize is reached; maxsize <= 0 means
\* the queue has no size limit.
QueueFull == log_queue.maxsize > 0 /\ QueueSize >= log_queue.maxsize

\* An emptiness test that is off by one.
MutEmpty == Len(pipe) <= 1

\* Queue.empty(): nothing to read in the pipe.
empty == pipe = <<>>

\* Queue.get(): the oldest message in the pipe.
get == Head(pipe)

\* ---------------------------------------------------------------- helpers
\* A loop that hands every worker the same rank.
MutRange(n) == [k \in 1..n |-> 0]

\* range(n)
range(n) == [k \in 1..n |-> k - 1]

Call(tag, n) == calls' = Append(calls, <<tag, n>>)

Count(tag) == Cardinality({k \in 1..Len(calls) : calls[k][1] = tag})

CountOf(tag, n) == Cardinality({k \in 1..Len(calls) : calls[k] = <<tag, n>>})

Called(tag, n) == \E k \in 1..Len(calls) : calls[k] = <<tag, n>>

\* Position of the first call <<tag, n>> in the history (0 when there is none).
Pos(tag, n) ==
    IF Called(tag, n)
    THEN CHOOSE k \in 1..Len(calls) :
            calls[k] = <<tag, n>> /\ \A j \in 1..(k - 1) : calls[j] # <<tag, n>>
    ELSE 0

\* mp.Process(target=train, args=args): what the claims need of args.
Process(rank) ==
    [target |-> "train", rank |-> rank, model |-> model, log_queue |-> "log_queue"]

\* The process is running: poll() is None.
Alive(r) == wstate[r] \in {"running", "flushing"}

workers == <<wstate, wexit, produced, buffer>>
queue == <<pipe, fed>>

\* An exception outside any try block leaves embed at once.
Raise(e) == pc' = "raised" /\ exc' = e

\* ------------------------------------------------------------------- Init
TypeInit ==
    /\ pc = "start"
    /\ exc = "none"
    /\ manifold = NoManifold
    /\ model = NoModel
    /\ log_queue = NoQueue
    /\ threads = <<>>
    /\ idx = 0
    /\ wstate = [r \in Ranks |-> "none"]
    /\ wexit = [r \in Ranks |-> -1]
    /\ produced = [r \in Ranks |-> 0]
    /\ buffer = [r \in Ranks |-> <<>>]
    /\ pipe = <<>>
    /\ fed = <<>>
    /\ logged = <<>>
    /\ calls = <<>>

\* The configuration of config(), with the values a command line may override.
Init ==
    /\ train_threads \in -1..MaxThreads
    /\ double_precision \in BOOLEAN
    /\ gpu \in {-1, 0}
    /\ manifold_name \in {"Product", "Torus"}
    /\ submanifold_names = <<"PoincareBall", "PoincareBall", "Euclidean">>
    /\ submanifold_shapes = <<15, 15, 20>>
    /\ TypeInit

\* --------------------------------------------------------- embed: set-up
\* load_dataset ... log_queue = mp.Queue()
Setup ==
    /\ pc = "start"
    /\ log_queue' = Queue(QueueMaxsize)
    /\ pc' = "initialize_eval"
    /\ UNCHANGED <<config, exc, manifold, model, threads, idx, workers, queue, logged, calls>>

\* embed_eval.initialize_eval(...)
InitializeEval ==
    /\ pc = "initialize_eval"
    /\ Call("initialize_eval", 0)
    /\ pc' = "get_embed_manifold"
    /\ UNCHANGED <<config, exc, manifold, model, log_queue, threads, idx, workers, queue, logged>>

\* manifold = get_embed_manifold()
GetManifold ==
    /\ pc = "get_embed_manifold"
    /\ LET m == get_embed_manifold(manifold_name, 1) IN
        IF m.kind = "RecursionError"
        THEN Raise("RecursionError") /\ UNCHANGED manifold
        ELSE manifold' = m /\ pc' = "model" /\ UNCHANGED exc
    /\ UNCHANGED <<config, model, log_queue, threads, idx, workers, queue, logged, calls>>

\* model = ManifoldEmbedding(...): returns the model, or raises.
BuildModel ==
    /\ pc = "model"
    /\ \/ /\ model' = ManifoldEmbedding
          /\ pc' = "share_memory"
          /\ UNCHANGED exc
       \/ Raise("model_error") /\ UNCHANGED model
    /\ UNCHANGED <<config, manifold, log_queue, threads, idx, workers, queue, logged, calls>>

\* if train_threads > 1: model = model.share_memory()
ShareMemory ==
    /\ pc = "share_memory"
    /\ IF train_threads > 1
       THEN model' = share_memory(model) /\ Call("share_memory", 0)
       ELSE UNCHANGED <<model, calls>>
    /\ pc' = "to_device"
    /\ UNCHANGED <<config, exc, manifold, log_queue, threads, idx, workers, queue, logged>>

\* model = model.to(device); model = model.double() or model.float()
ToDevice ==
    /\ pc = "to_device"
    /\ model' = precision(to(model, device))
    /\ pc' = "initialization"
    /\ UNCHANGED <<config, exc, manifold, log_queue, threads, idx, workers, queue, logged, calls>>

\* apply_initialization(model.weight.data, manifold); manifold._projx(...):
\* the attribute access raises when manifold is None.
ApplyInitialization ==
    /\ pc = "initialization"
    /\ \/ manifold.kind # "None" /\ pc' = "optimizer" /\ UNCHANGED exc
       \/ manifold.kind = "None" /\ Raise("AttributeError")
       \/ manifold.kind # "None" /\ Raise("initialization_error")
    /\ UNCHANGED <<config, manifold, model, log_queue, threads, idx, workers, queue, logged, calls>>

\* optimizer = RiemannianSGD(...); threads = []; if train_threads > 1:
CreateOptimizer ==
    /\ pc = "optimizer"
    /\ \/ /\ pc' = IF train_threads > 1 THEN "spawn" ELSE "train"
          /\ threads' = <<>>
          /\ UNCHANGED exc
       \/ Raise("optimizer_error") /\ UNCHANGED threads
    /\ UNCHANGED <<config, manifold, model, log_queue, idx, workers, queue, logged, calls>>

\* ------------------------------------------------ embed: worker processes
\* One iteration of `for i in range(train_threads)`: the process object is
\* appended, then started; start() may raise, which leaves the try block.
StartWorker ==
    /\ pc = "spawn"
    /\ Len(threads) < train_threads
    /\ LET i == range(train_threads)[Len(threads) + 1] IN
        /\ threads' = Append(threads, Process(i))
        /\ \/ /\ wstate' = [wstate EXCEPT ![i] = "running"]
              /\ Call("start", i)
              /\ pc' = IF Len(threads') = train_threads THEN "join" ELSE "spawn"
              /\ idx' = 1
              /\ UNCHANGED exc
           \/ /\ wstate' = [wstate EXCEPT ![i] = "initial"]
              /\ Call("start_failed", i)
              /\ exc' = "start_error"
              /\ pc' = "finally"
              /\ idx' = 1
    /\ UNCHANGED <<config, manifold, model, log_queue, wexit, produced, buffer, queue, logged>>

\* A join that does not wait.
MutJoined(r) == TRUE

\* thread.join() returns once the process has ended.
joined(r) == ~Alive(r)

\* A join that re-raises the failure of the worker.
MutJoin(r) == IF wexit[r] > 0 THEN "worker_error" ELSE "none"

\* What thread.join() raises in the parent: nothing, however the process
\* ended; the exit code is left unread.
join(r) == "none"

\* One iteration of `for thread in threads: thread.join()`, or an interrupt
\* delivered to the parent while it waits.
Join ==
    /\ pc = "join"
    /\ \/ /\ joined(threads[idx].rank)
          /\ Call("join", threads[idx].rank)
          /\ exc' = join(threads[idx].rank)
          /\ IF idx = Len(threads) \/ exc' # "none"
             THEN pc' = "finally" /\ idx' = 1
             ELSE pc' = "join" /\ idx' = idx + 1
       \/ /\ Call("interrupt", threads[idx].rank)
          /\ exc' = "KeyboardInterrupt"
          /\ pc' = "finally"
          /\ idx' = 1
    /\ UNCHANGED <<config, manifold, model, log_queue, threads, workers, queue, logged>>

\* A clean-up loop that stops after its first process.
MutNextClose == pc' = "close_thread" /\ idx' = 0

\* Leaving one iteration of the `for thread in threads` loop of the finally block.
NextClose ==
    IF idx = Len(threads)
    THEN pc' = "close_thread" /\ idx' = 0
    ELSE pc' = "finally" /\ idx' = idx + 1

\* thread.close(): raises while the process is still running.
CloseWorker ==
    /\ pc = "finally"
    /\ LET r == threads[idx].rank IN
        IF Alive(r)
        THEN Call("close_raised", r) /\ pc' = "terminate" /\ UNCHANGED idx
        ELSE Call("close", r) /\ NextClose
    /\ UNCHANGED <<config, exc, manifold, model, log_queue, threads, workers, queue, logged>>

\* except: thread.terminate(): the process, if still running, is killed and
\* what it had buffered for the queue is lost.
TerminateWorker ==
    /\ pc = "terminate"
    /\ LET r == threads[idx].rank IN
        /\ Call("terminate", r)
        /\ IF Alive(r)
           THEN /\ wstate' = [wstate EXCEPT ![r] = "terminated"]
                /\ wexit' = [wexit EXCEPT ![r] = -15]
                /\ buffer' = [buffer EXCEPT ![r] = <<>>]
           ELSE UNCHANGED <<wstate, wexit, buffer>>
    /\ NextClose
    /\ UNCHANGED <<config, exc, manifold, model, log_queue, threads, produced, queue, logged>>

\* embed_eval.close_thread(wait_to_finish=True), last statement of either
\* finally block; a pending exception then leaves embed.
CloseThread ==
    /\ pc = "close_thread"
    /\ Call("close_thread", 1)
    /\ pc' = IF exc = "none" THEN "drain" ELSE "raised"
    /\ UNCHANGED <<config, exc, manifold, model, log_queue, threads, idx, workers, queue, logged>>

\* ------------------------------------------- embed: training in the parent
\* train(*args) with rank 0
TrainCall ==
    /\ pc = "train"
    /\ Call("train", 0)
    /\ pc' = "training"
    /\ UNCHANGED <<config, exc, manifold, model, log_queue, threads, idx, workers, queue, logged>>

\* train returns or raises in the parent.
TrainEnd ==
    /\ pc = "training"
    /\ \/ UNCHANGED exc
       \/ exc' = "train_error"
    /\ pc' = "close_thread"
    /\ UNCHANGED <<config, manifold, model, log_queue, threads, idx, workers, queue, logged, calls>>

\* ------------------------------------------------------- embed: log drain
\* while not log_queue.empty(): msg = log_queue.get(); _log.info(msg)
Drain ==
    /\ pc = "drain"
    /\ IF empty
       THEN pc' = "done" /\ UNCHANGED <<pipe, logged>>
       ELSE /\ logged' = Append(logged, get)
            /\ pipe' = Tail(pipe)
            /\ pc' = "drain"
    /\ UNCHANGED <<config, exc, manifold, model, log_queue, threads, idx, workers, fed, calls>>

\* ------------------------------------------------------------------ train
\* train runs as rank r: in worker process r, or in the parent as rank 0.
Training(r) ==
    \/ wstate[r] = "running"
    \/ r = 0 /\ pc = "training"

\* log_queue.put(msg) in train: blocks while the queue is full, otherwise
\* hands the message to the process-local buffer.
TrainPut(r) ==
    /\ Training(r)
    /\ Sum(produced, Ranks) < MaxMsgs
    /\ ~QueueFull
    /\ produced' = [produced EXCEPT ![r] = produced[r] + 1]
    /\ buffer' = [buffer EXCEPT ![r] = Append(buffer[r], <<r, produced[r] + 1>>)]
    /\ UNCHANGED <<config, pc, exc, manifold, model, log_queue, threads, idx,
                   wstate, wexit, queue, logged, calls>>

\* train ends in worker r, by returning or by raising; the process then
\* waits for its feeder thread before it exits.
WorkerFinish(r) ==
    /\ wstate[r] = "running"
    /\ wstate' = [wstate EXCEPT ![r] = "flushing"]
    /\ UNCHANGED <<config, pc, exc, manifold, model, log_queue, threads, idx,
                   wexit, produced, buffer, queue, logged, calls>>

\* The process exits once its feeder thread has written all it buffered; its
\* exit code is 0 when train returned and 1 when train raised.
WorkerExit(r) ==
    /\ wstate[r] = "flushing"
    /\ buffer[r] = <<>>
    /\ wstate' = [wstate EXCEPT ![r] = "exited"]
    /\ \E code \in {0, 1} : wexit' = [wexit EXCEPT ![r] = code]
    /\ UNCHANGED <<config, pc, exc, manifold, model, log_queue, threads, idx,
                   produced, buffer, queue, logged, calls>>

\* The feeder thread of the process running rank r writes the oldest buffered
\* message to the pipe; the write blocks while the pipe is full.
Feeder(r) ==
    /\ Alive(r) \/ (r = 0 /\ train_threads <= 1)
    /\ buffer[r] # <<>>
    /\ Len(pipe) < PipeCapacity
    /\ pipe' = Append(pipe, Head(buffer[r]))
    /\ fed' = Append(fed, Head(buffer[r]))
    /\ buffer' = [buffer EXCEPT ![r] = Tail(buffer[r])]
    /\ UNCHANGED <<config, pc, exc, manifold, model, log_queue, threads, idx,
                   wstate, wexit, produced, logged, calls>>

\* ------------------------------------------------------------------- Next
Next ==
    \/ Setup
    \/ InitializeEval
    \/ GetManifold
    \/ BuildModel
    \/ ShareMemory
    \/ ToDevice
    \/ ApplyInitialization
    \/ CreateOptimizer
    \/ StartWorker
    \/ Join
    \/ CloseWorker
    \/ TerminateWorker
    \/ CloseThread
    \/ TrainCall
    \/ TrainEnd
    \/ Drain
    \/ \E r \in Ranks : TrainPut(r)
    \/ \E r \in Ranks : WorkerFinish(r)
    \/ \E r \in Ranks : WorkerExit(r)
    \/ \E r \in Ranks : Feeder(r)

Spec == Init /\ [][Next]_vars

\* ---------------------------------------- get_embed_manifold called alone
InitManifold ==
    /\ train_threads = 1
    /\ double_precision = TRUE
    /\ gpu = -1
    /\ manifold_name \in Names
    /\ submanifold_names \in SeqsUpTo(Names, MaxSubs)
    /\ submanifold_shapes \in {<<15>>, <<15, 20>>}
    /\ TypeInit

\* get_embed_manifold(): the call returns its result or raises.
CallGetEmbedManifold ==
    /\ pc = "start"
    /\ manifold' = get_embed_manifold(manifold_name, 1)
    /\ pc' = IF manifold'.kind = "RecursionError" THEN "raised" ELSE "returned"
    /\ UNCHANGED <<config, exc, model, log_queue, threads, idx, workers, queue, logged, calls>>

NextManifold == CallGetEmbedManifold

SpecManifold == InitManifold /\ [][NextManifold]_vars

\* ================================================================ claims
Multi == train_threads > 1

\* The parent itself failed inside the try block: start() raised or the
\* wait in join() was interrupted.
ParentFault == Count("start_failed") + Count("interrupt") > 0

\* The parent has left the try/finally statement of the multi-process branch.
LeftFinally == pc \in {"close_thread", "drain", "done"} \/ (pc = "raised" /\ threads # <<>>)

AllRanks == 0..(train_threads - 1)

\* C1: with train_threads > 1 the workers are the processes of ranks
\* 0, 1, ... in order, each started at most once, all with target train and
\* the same model and log queue, train never runs in the parent, and once
\* the start loop has run to its end exactly train_threads workers were
\* started; with train_threads <= 1 no process is ever created and train
\* runs in the parent, once, with rank 0.
C1_Dispatch ==
    /\ Multi =>
        /\ Count("train") = 0
        /\ Len(threads) <= train_threads
        /\ \A k \in 1..Len(threads) :
                threads[k] = [target |-> "train", rank |-> k - 1,
                              model |-> model, log_queue |-> "log_queue"]
        /\ \A r \in Ranks : CountOf("start", r) + CountOf("start_failed", r) <= 1
        /\ Count("start") + Count("start_failed") = Len(threads)
        /\ (pc \in {"join", "drain", "done"} \/ Count("join") > 0) =>
                /\ Len(threads) = train_threads
                /\ \A r \in AllRanks : CountOf("start", r) = 1
    /\ ~Multi =>
        /\ threads = <<>>
        /\ Count("start") + Count("start_failed") = 0
        /\ \A r \in Ranks : wstate[r] = "none"
        /\ Count("train") = CountOf("train", 0)
        /\ Count("train") <= 1
        /\ pc \in {"training", "close_thread", "drain", "done"} => Count("train") = 1

C1_Witness ==
    /\ Multi
    /\ pc = "done"
    /\ Count("start") = train_threads
    /\ \A r \in AllRanks : Called("start", r)

\* C2: once the parent has left the try/finally statement of the
\* multi-process branch, every process in `threads` has had close() succeed
\* or terminate() called and none is still running; terminate() is called on
\* a process only after close() raised on that process.
C2_ClosedOrTerminated ==
    /\ \A r \in Ranks :
            Called("terminate", r) =>
                /\ Called("close_raised", r)
                /\ Pos("close_raised", r) < Pos("terminate", r)
                /\ ~Called("close", r)
    /\ LeftFinally =>
            \A k \in 1..Len(threads) :
                /\ Called("close", threads[k].rank) \/ Called("terminate", threads[k].rank)
                /\ ~Alive(threads[k].rank)

C2_Witness ==
    /\ pc = "raised"
    /\ exc = "start_error"
    /\ Len(threads) = 2
    /\ Called("terminate", 0)
    /\ Called("close", 1)

\* C3: when embed has returned or raised after initialize_eval returned,
\* close_thread was called exactly once, and in the multi-process branch
\* after the close/terminate pass over the processes.
C3_EvalClosedOnce ==
    /\ (pc \in {"drain", "done", "raised"} /\ Called("initialize_eval", 0)) =>
            Count("close_thread") = 1
    /\ Called("close_thread", 1) =>
            \A k \in 1..Len(threads) :
                Called("close", threads[k].rank) \/ Called("terminate", threads[k].rank)

\* C4: with train_threads > 1 the parameter storage of the model handed to
\* the workers is in shared memory when a worker is started; with
\* train_threads <= 1 share_memory() is never called.
C4_SharedWhenStarted ==
    /\ \A k \in 1..Len(threads) : threads[k].model.shared
    /\ ~Multi => Count("share_memory") = 0

\* C5: no rank is started twice and train is called in the parent at most
\* once; in a multi-process run in which the parent itself met no failure,
\* the parent raises nothing whatever the exit codes of the workers, joins
\* every worker, and on return has closed every process and the evaluation
\* resources; in a single-process run a failure of train leaves embed after
\* close_thread, with train called once and nothing drained.
C5_NoRetryNotObserved ==
    /\ \A r \in Ranks : CountOf("start", r) <= 1
    /\ Count("train") <= 1
    /\ (Multi /\ threads # <<>> /\ ~ParentFault) =>
        /\ exc = "none"
        /\ pc # "raised"
        /\ pc \in {"finally", "terminate", "close_thread", "drain", "done"} =>
                \A r \in AllRanks : CountOf("join", r) = 1
        /\ pc \in {"drain", "done"} =>
                /\ Count("close_thread") = 1
                /\ \A r \in AllRanks : Called("close", r)
    /\ (~Multi /\ exc = "train_error" /\ pc = "raised") =>
        /\ Count("close_thread") = 1
        /\ Count("train") = 1
        /\ logged = <<>>

C5_Witness ==
    /\ Multi
    /\ pc = "done"
    /\ \E r \in AllRanks : wexit[r] = 1
    /\ \E r \in AllRanks : wexit[r] = 0

\* What C6 says of each state.
C6_State ==
    /\ logged \o pipe = fed
    /\ pc \in {"drain", "done"} =>
        /\ exc = "none"
        /\ Count("close_thread") = 1
        /\ Multi => \A r \in AllRanks : Called("join", r) /\ ~Alive(r)
    /\ logged # <<>> => pc \in {"drain", "done"}
    /\ pc = "raised" => logged = <<>>
    /\ (pc = "done" /\ Multi) =>
        /\ pipe = <<>>
        /\ logged = fed
        /\ Len(logged) = Sum(produced, Ranks)

C7_Bounded ==
    log_queue.created => (log_queue.maxsize > 0 /\ QueueSize <= log_queue.maxsize)

\* C7 amended: the queue is created without a size limit (maxsize 0), a put
\* is never blocked for capacity, so that train can always put its next
\* message.
C7_NeverBlocked ==
    log_queue.created =>
        /\ log_queue.maxsize = 0
        /\ ~QueueFull
        /\ \A r \in Ranks :
                (Training(r) /\ Sum(produced, Ranks) < MaxMsgs) => ENABLED TrainPut(r)

C7_Witness ==
    /\ Multi
    /\ QueueSize = MaxMsgs
    /\ \A r \in AllRanks : buffer[r] # <<>>
    /\ QueueSize > PipeCapacity

\* C9: in a multi-process run in which the parent met no failure, every
\* start precedes every join, every join precedes every close, close is
\* attempted only once all workers have ended, it succeeds on every worker
\* and terminate is never called.
C9_LifecycleOrder ==
    (Multi /\ ~ParentFault) =>
        /\ \A j, k \in 1..Len(calls) :
                (calls[j][1] = "join" /\ calls[k][1] = "start") => k < j
        /\ Count("join") > 0 => Count("start") = train_threads
        /\ \A j, k \in 1..Len(calls) :
                (calls[j][1] \in {"close", "close_raised"} /\ calls[k][1] = "join") => k < j
        /\ Count("close") + Count("close_raised") > 0 =>
                /\ Count("join") = train_threads
                /\ \A r \in AllRanks : wstate[r] = "exited"
        /\ Count("close_raised") = 0
        /\ Count("terminate") = 0
        /\ pc \in {"close_thread", "drain", "done"} =>
                \A r \in AllRanks : CountOf("close", r) = 1

C9_Witness ==
    /\ Multi
    /\ ~ParentFault
    /\ pc = "done"
    /\ Count("close") = train_threads

\* C10: no worker that has finished training is blocked writing its pending
\* log messages to the full pipe while the parent waits in join for it.
C10_NoFlushDeadlock ==
    ~(/\ pc = "join"
      /\ wstate[threads[idx].rank] = "flushing"
      /\ buffer[threads[idx].rank] # <<>>
      /\ Len(pipe) = PipeCapacity)

\* C8: get_embed_manifold returns the leaf manifold of a leaf name, for
\* Product the product of one recursive result per entry of
\* submanifold_names, in order, with submanifold_shapes; the call always
\* returns, and never returns None.
C8_BuildsNamedManifold ==
    pc # "start" =>
        /\ pc = "returned"
        /\ manifold.kind # "None"
        /\ manifold_name \in {"Euclidean", "PoincareBall", "Sphere"} =>
                manifold = Leaf(manifold_name)
        /\ manifold_name = "Product" =>
                /\ manifold.kind = "Product"
                /\ manifold.shapes = submanifold_shapes
                /\ Len(manifold.subs) = Len(submanifold_names)
                /\ \A i \in 1..Len(submanifold_names) :
                        manifold.subs[i] = get_embed_manifold(submanifold_names[i], 2)

====
